---- MODULE Spec2Model ----
(***************************************************************************)
(* Model of the queuing system of src/main.cpp: one generator thread, a    *)
(* pool of device (worker) threads bound to groups, a RequestQueue holding  *)
(* one array-backed max-heap per group under a global capacity, one mutex, *)
(* one condition variable and the SIGINT handler that sets the shutdown    *)
(* flag.                                                                   *)
(***************************************************************************)
EXTENDS Integers, Sequences, FiniteSets

\* ---------------------------------------------------------------------------
\* Bounds of the model
\* ---------------------------------------------------------------------------
\* most device threads (groups times devices per group)
MaxWorkers == 2
\* largest capacity of the queue
MaxCapacity == 3
\* most device threads and queue slots together
MaxLoad == 4
\* the same, where whole behaviours are examined under fairness
MaxFairLoad == 3
\* the same, where the threads run without a signal
MaxRunLoad == 4
\* largest capacity of the queue taken on its own
MaxStoreCapacity == 4

\* ---------------------------------------------------------------------------
\* Program constants
\* ---------------------------------------------------------------------------
MIN_REQUEST_TYPE == 1
MAX_REQUEST_TYPE == 3

VARIABLES
    capacity,          \* RequestQueue::capacity
    numOfGroups,       \* main: numOfGroups
    numOfDevices,      \* main: numOfDevices (devices per group)
    currentSize,       \* RequestQueue::currentSize
    allRequests,       \* RequestQueue::allRequests, group id -> heap array
    threadIsfFinished, \* the global shutdown flag
    mtx,               \* the global mutex: TRUE when locked
    genPc,             \* position of the generator thread in generateRequest
    devPc,             \* device id -> position in requestProcessing
    request,           \* device id -> the local `request` of requestProcessing
    handlerPc,         \* position of signalHandler
    mainPc,            \* position of main in its joins
    pushesMinusPops,   \* history: completed pushes minus completed pops
    lastOp             \* history: the last operation on the store

vars == <<capacity, numOfGroups, numOfDevices, currentSize, allRequests,
          threadIsfFinished, mtx, genPc, devPc, request, handlerPc, mainPc,
          pushesMinusPops, lastOp>>

config == <<capacity, numOfGroups, numOfDevices>>
store == <<currentSize, allRequests>>
history == <<pushesMinusPops, lastOp>>

\* ---------------------------------------------------------------------------
\* Request, Device
\* ---------------------------------------------------------------------------
Groups == 0 .. (numOfGroups - 1)
Devices == 0 .. (numOfGroups * numOfDevices - 1)
RequestTypes == MIN_REQUEST_TYPE .. MAX_REQUEST_TYPE

\* Device device(i, i * numOfDevices + q): the group of the device with this id
DeviceGroup(d) == d \div numOfDevices

Request(g, t) == [groupId |-> g, type |-> t]

\* the local `request` of a device outside the scope of the declaration
NoRequest == [groupId |-> -1, type |-> 0]

\* Request::operator< and Request::operator>
Less(a, b) == a.type < b.type
Greater(a, b) == a.type > b.type

\* ---------------------------------------------------------------------------
\* The heap arrays (std::vector, 0-based index i is the sequence's i + 1)
\* ---------------------------------------------------------------------------
Swap(requests, i, j) ==
    [requests EXCEPT ![i + 1] = requests[j + 1], ![j + 1] = requests[i + 1]]

\* heapifyUp as it would be if it stopped after one swap
heapifyUp_OneLevel(requests, index) ==
    IF index = 0 THEN requests
    ELSE LET parent == (index - 1) \div 2
         IN  IF ~Less(requests[parent + 1], requests[index + 1]) THEN requests
             ELSE Swap(requests, parent, index)

RECURSIVE heapifyUp(_, _)
heapifyUp(requests, index) ==
    IF index = 0 THEN requests
    ELSE LET parent == (index - 1) \div 2
         IN  IF ~Less(requests[parent + 1], requests[index + 1]) THEN requests
             ELSE heapifyUp(Swap(requests, parent, index), parent)

\* heapifyDown as it would be if it forgot the right child
RECURSIVE heapifyDown_LeftOnly(_, _)
heapifyDown_LeftOnly(requests, index) ==
    LET left == 2 * index + 1
        large == IF left < Len(requests)
                    /\ Greater(requests[left + 1], requests[index + 1])
                 THEN left ELSE index
    IN  IF large = index THEN requests
        ELSE heapifyDown_LeftOnly(Swap(requests, index, large), large)

RECURSIVE heapifyDown(_, _)
heapifyDown(requests, index) ==
    LET left == 2 * index + 1
        right == 2 * index + 2
        large1 == IF left < Len(requests)
                     /\ Greater(requests[left + 1], requests[index + 1])
                  THEN left ELSE index
        large == IF right < Len(requests)
                    /\ Greater(requests[right + 1], requests[large1 + 1])
                 THEN right ELSE large1
    IN  IF large = index THEN requests
        ELSE heapifyDown(Swap(requests, index, large), large)

\* ---------------------------------------------------------------------------
\* RequestQueue
\* ---------------------------------------------------------------------------
\* top as it would be if it returned back() instead of the root
top_Back(groupId) == allRequests[groupId][Len(allRequests[groupId])]

top(groupId) == allRequests[groupId][1]

\* isFull as it would be with > in place of ==
isFull_Greater == currentSize > capacity

isFull == currentSize = capacity

isEmpty(groupId) == Len(allRequests[groupId]) = 0

\* push_back followed by heapifyUp from the last index
pushHeap(requests, req) == heapifyUp(Append(requests, req), Len(requests))

\* pop's array part as it would be if it erased the front element and kept
\* the others in their order
popHeap_EraseFront(requests) == heapifyDown(Tail(requests), 0)

\* [0] = back(); pop_back(); heapifyDown from the root.  Called on a
\* non-empty array only (on an empty one the C++ is undefined).
popHeap(requests) ==
    LET n == Len(requests)
        moved == [requests EXCEPT ![1] = requests[n]]
    IN  heapifyDown(SubSeq(moved, 1, n - 1), 0)

\* push as it would be if it stored every request in the first group
push_FirstGroup(req) ==
    /\ currentSize' = currentSize + 1
    /\ allRequests' = [allRequests EXCEPT ![0] = pushHeap(@, req)]

\* push as it would be without currentSize++
push_NoCount(req) ==
    /\ currentSize' = currentSize
    /\ allRequests' = [allRequests EXCEPT ![req.groupId] = pushHeap(@, req)]

push(req) ==
    /\ currentSize' = currentSize + 1
    /\ allRequests' = [allRequests EXCEPT ![req.groupId] = pushHeap(@, req)]

\* pop as it would be if it ignored groupId and took from the first
\* non-empty group
pop_FirstNonEmpty(groupId) ==
    /\ currentSize' = currentSize - 1
    /\ LET first == CHOOSE g \in Groups :
                      /\ ~isEmpty(g)
                      /\ \A h \in Groups : ~isEmpty(h) => g <= h
       IN  allRequests' = [allRequests EXCEPT ![first] = popHeap(@)]

\* pop as it would be without currentSize--
pop_NoCount(groupId) ==
    /\ currentSize' = currentSize
    /\ allRequests' = [allRequests EXCEPT ![groupId] = popHeap(@)]

pop(groupId) ==
    /\ currentSize' = currentSize - 1
    /\ allRequests' = [allRequests EXCEPT ![groupId] = popHeap(@)]

\* ---------------------------------------------------------------------------
\* Initial state: main has read the configuration, constructed the queue
\* and started the threads; nobody has run yet.
\* ---------------------------------------------------------------------------
\* main reads capacity, numOfGroups and numOfDevices without validating
\* them; a capacity of 0 gives a queue that is full from the start
Configured(maxCap, maxLoad) ==
    /\ capacity \in 0 .. maxCap
    /\ numOfGroups \in 1 .. MaxWorkers
    /\ numOfDevices \in 1 .. MaxWorkers
    /\ numOfGroups * numOfDevices <= MaxWorkers
    /\ numOfGroups * numOfDevices + capacity <= maxLoad

Constructed ==
    /\ currentSize = 0
    /\ allRequests = [g \in Groups |-> << >>]
    /\ threadIsfFinished = FALSE
    /\ mtx = FALSE
    /\ genPc = "lock"
    /\ devPc = [d \in Devices |-> "lock"]
    /\ request = [d \in Devices |-> NoRequest]
    /\ handlerPc = "idle"
    /\ mainPc = 0
    /\ pushesMinusPops = 0
    /\ lastOp = "none"

Init == Configured(MaxCapacity, MaxLoad) /\ Constructed

FairInit == Configured(MaxCapacity, MaxFairLoad) /\ Constructed

RunInit == Configured(MaxCapacity, MaxRunLoad) /\ Constructed

\* ---------------------------------------------------------------------------
\* signalHandler: runs asynchronously, without the mutex
\* ---------------------------------------------------------------------------
ProcessAlive == mainPc <= numOfGroups * numOfDevices

HandlerSetFlag ==
    /\ ProcessAlive
    /\ handlerPc = "idle"
    /\ threadIsfFinished' = TRUE
    /\ handlerPc' = "notify"
    /\ UNCHANGED <<config, store, mtx, genPc, devPc, request, mainPc, history>>

\* cv.notify_all(): every thread blocked in the wait leaves it and goes on
\* to reacquire the mutex
Woken(p) == IF p = "waiting" THEN "relock" ELSE p

WokenDevices == [d \in Devices |-> Woken(devPc[d])]

\* the handler as it would be without cv.notify_all()
HandlerNotify_NoBroadcast ==
    /\ handlerPc = "notify"
    /\ handlerPc' = "idle"
    /\ UNCHANGED <<config, store, threadIsfFinished, mtx, genPc, devPc,
                   request, mainPc, history>>

HandlerNotify ==
    /\ handlerPc = "notify"
    /\ genPc' = Woken(genPc)
    /\ devPc' = WokenDevices
    /\ handlerPc' = "idle"
    /\ UNCHANGED <<config, store, threadIsfFinished, mtx, request, mainPc, history>>

signalHandler == HandlerSetFlag \/ HandlerNotify

\* ---------------------------------------------------------------------------
\* generateRequest
\* ---------------------------------------------------------------------------
\* the predicate of the generator's cv.wait
GenPredicate == ~isFull \/ threadIsfFinished

\* std::unique_lock q_lock(mtx)
GenLock ==
    /\ genPc = "lock"
    /\ ~mtx
    /\ mtx' = TRUE
    /\ genPc' = "pred"
    /\ UNCHANGED <<config, store, threadIsfFinished, devPc, request,
                   handlerPc, mainPc, history>>

\* cv.wait(q_lock, pred) is while (!pred()) wait(q_lock): one evaluation
GenPred ==
    /\ genPc = "pred"
    /\ genPc' = IF GenPredicate THEN "check" ELSE "block"
    /\ UNCHANGED <<config, store, threadIsfFinished, mtx, devPc, request,
                   handlerPc, mainPc, history>>

\* wait(q_lock): releases the mutex and blocks, atomically
GenBlock ==
    /\ genPc = "block"
    /\ mtx' = FALSE
    /\ genPc' = "waiting"
    /\ UNCHANGED <<config, store, threadIsfFinished, devPc, request,
                   handlerPc, mainPc, history>>

\* a spurious wake-up of the condition variable
GenSpurious ==
    /\ genPc = "waiting"
    /\ genPc' = "relock"
    /\ UNCHANGED <<config, store, threadIsfFinished, mtx, devPc, request,
                   handlerPc, mainPc, history>>

\* wait(q_lock) returning: reacquires the mutex, the loop tests pred again
GenRelock ==
    /\ genPc = "relock"
    /\ ~mtx
    /\ mtx' = TRUE
    /\ genPc' = "pred"
    /\ UNCHANGED <<config, store, threadIsfFinished, devPc, request,
                   handlerPc, mainPc, history>>

\* the generator as it would be with the test of the flag inverted
GenCheck_Inverted ==
    /\ genPc = "check"
    /\ IF ~threadIsfFinished
       THEN mtx' = FALSE /\ genPc' = "termlock"
       ELSE mtx' = mtx /\ genPc' = "push"
    /\ UNCHANGED <<config, store, threadIsfFinished, devPc, request,
                   handlerPc, mainPc, history>>

\* if (threadIsfFinished) break;  the break destroys q_lock
GenCheck ==
    /\ genPc = "check"
    /\ IF threadIsfFinished
       THEN mtx' = FALSE /\ genPc' = "termlock"
       ELSE mtx' = mtx /\ genPc' = "push"
    /\ UNCHANGED <<config, store, threadIsfFinished, devPc, request,
                   handlerPc, mainPc, history>>

\* queue.push(Request(random group, random type))
GenPush ==
    /\ genPc = "push"
    /\ \E g \in Groups, t \in RequestTypes : push(Request(g, t))
    /\ pushesMinusPops' = pushesMinusPops + 1
    /\ lastOp' = "push"
    /\ genPc' = "unlock"
    /\ UNCHANGED <<config, threadIsfFinished, mtx, devPc, request,
                   handlerPc, mainPc>>

\* q_lock.unlock()
GenUnlock ==
    /\ genPc = "unlock"
    /\ mtx' = FALSE
    /\ genPc' = "notify"
    /\ UNCHANGED <<config, store, threadIsfFinished, devPc, request,
                   handlerPc, mainPc, history>>

\* the generator as it would be without cv.notify_all() after its push
GenNotify_NoBroadcast ==
    /\ genPc = "notify"
    /\ genPc' = "sleep"
    /\ UNCHANGED <<config, store, threadIsfFinished, mtx, devPc, request,
                   handlerPc, mainPc, history>>

\* cv.notify_all()
GenNotify ==
    /\ genPc = "notify"
    /\ genPc' = "sleep"
    /\ devPc' = WokenDevices
    /\ UNCHANGED <<config, store, threadIsfFinished, mtx, request,
                   handlerPc, mainPc, history>>

\* std::this_thread::sleep_for(...), then the next iteration
GenSleep ==
    /\ genPc = "sleep"
    /\ genPc' = "lock"
    /\ UNCHANGED <<config, store, threadIsfFinished, mtx, devPc, request,
                   handlerPc, mainPc, history>>

\* std::lock_guard<std::mutex> lg(mtx) after the loop
GenTermLock ==
    /\ genPc = "termlock"
    /\ ~mtx
    /\ mtx' = TRUE
    /\ genPc' = "termprint"
    /\ UNCHANGED <<config, store, threadIsfFinished, devPc, request,
                   handlerPc, mainPc, history>>

\* the terminating message, then the function returns and lg is destroyed
GenTermPrint ==
    /\ genPc = "termprint"
    /\ mtx' = FALSE
    /\ genPc' = "done"
    /\ UNCHANGED <<config, store, threadIsfFinished, devPc, request,
                   handlerPc, mainPc, history>>

\* every step of the generator the scheduler is bound to take
generateRequest ==
    \/ GenLock \/ GenPred \/ GenBlock \/ GenRelock \/ GenCheck \/ GenPush
    \/ GenUnlock \/ GenNotify \/ GenSleep \/ GenTermLock \/ GenTermPrint

\* ---------------------------------------------------------------------------
\* requestProcessing(device, queue)
\* ---------------------------------------------------------------------------
\* the predicate of a device's cv.wait
DevPredicate(d) == ~isEmpty(DeviceGroup(d)) \/ threadIsfFinished

\* a device as it would be if it went on without owning the mutex
DevLock_NoMutex(d) ==
    /\ devPc[d] = "lock"
    /\ mtx' = TRUE
    /\ devPc' = [devPc EXCEPT ![d] = "pred"]
    /\ UNCHANGED <<config, store, threadIsfFinished, genPc, request,
                   handlerPc, mainPc, history>>

\* std::unique_lock<std::mutex> q_lock(mtx)
DevLock(d) ==
    /\ devPc[d] = "lock"
    /\ ~mtx
    /\ mtx' = TRUE
    /\ devPc' = [devPc EXCEPT ![d] = "pred"]
    /\ UNCHANGED <<config, store, threadIsfFinished, genPc, request,
                   handlerPc, mainPc, history>>

DevPred(d) ==
    /\ devPc[d] = "pred"
    /\ devPc' = [devPc EXCEPT ![d] = IF DevPredicate(d) THEN "check" ELSE "block"]
    /\ UNCHANGED <<config, store, threadIsfFinished, mtx, genPc, request,
                   handlerPc, mainPc, history>>

DevBlock(d) ==
    /\ devPc[d] = "block"
    /\ mtx' = FALSE
    /\ devPc' = [devPc EXCEPT ![d] = "waiting"]
    /\ UNCHANGED <<config, store, threadIsfFinished, genPc, request,
                   handlerPc, mainPc, history>>

DevSpurious(d) ==
    /\ devPc[d] = "waiting"
    /\ devPc' = [devPc EXCEPT ![d] = "relock"]
    /\ UNCHANGED <<config, store, threadIsfFinished, mtx, genPc, request,
                   handlerPc, mainPc, history>>

\* the wait as it would be without a predicate: cv.wait(q_lock)
DevRelock_NoRecheck(d) ==
    /\ devPc[d] = "relock"
    /\ ~mtx
    /\ mtx' = TRUE
    /\ devPc' = [devPc EXCEPT ![d] = "check"]
    /\ UNCHANGED <<config, store, threadIsfFinished, genPc, request,
                   handlerPc, mainPc, history>>

DevRelock(d) ==
    /\ devPc[d] = "relock"
    /\ ~mtx
    /\ mtx' = TRUE
    /\ devPc' = [devPc EXCEPT ![d] = "pred"]
    /\ UNCHANGED <<config, store, threadIsfFinished, genPc, request,
                   handlerPc, mainPc, history>>

\* if (threadIsfFinished) break;
DevCheck(d) ==
    /\ devPc[d] = "check"
    /\ IF threadIsfFinished
       THEN mtx' = FALSE /\ devPc' = [devPc EXCEPT ![d] = "termlock"]
       ELSE mtx' = mtx /\ devPc' = [devPc EXCEPT ![d] = "pop"]
    /\ UNCHANGED <<config, store, threadIsfFinished, genPc, request,
                   handlerPc, mainPc, history>>

\* Request request = queue.top(device.groupId); queue.pop(device.groupId);
DevPop(d) ==
    /\ devPc[d] = "pop"
    /\ request' = [request EXCEPT ![d] = top(DeviceGroup(d))]
    /\ pop(DeviceGroup(d))
    /\ pushesMinusPops' = pushesMinusPops - 1
    /\ lastOp' = "pop"
    /\ devPc' = [devPc EXCEPT ![d] = "unlock"]
    /\ UNCHANGED <<config, threadIsfFinished, mtx, genPc, handlerPc, mainPc>>

\* a device as it would be without q_lock.unlock() before its sleep
DevUnlock_StaysLocked(d) ==
    /\ devPc[d] = "unlock"
    /\ devPc' = [devPc EXCEPT ![d] = "notify"]
    /\ UNCHANGED <<config, store, threadIsfFinished, mtx, genPc, request,
                   handlerPc, mainPc, history>>

\* the report of the request, then q_lock.unlock()
DevUnlock(d) ==
    /\ devPc[d] = "unlock"
    /\ mtx' = FALSE
    /\ devPc' = [devPc EXCEPT ![d] = "notify"]
    /\ UNCHANGED <<config, store, threadIsfFinished, genPc, request,
                   handlerPc, mainPc, history>>

\* a device as it would be without cv.notify_all() after its pop
DevNotify_NoBroadcast(d) ==
    /\ devPc[d] = "notify"
    /\ devPc' = [devPc EXCEPT ![d] = "sleep"]
    /\ UNCHANGED <<config, store, threadIsfFinished, mtx, genPc, request,
                   handlerPc, mainPc, history>>

\* cv.notify_all()
DevNotify(d) ==
    /\ devPc[d] = "notify"
    /\ genPc' = Woken(genPc)
    /\ devPc' = [WokenDevices EXCEPT ![d] = "sleep"]
    /\ UNCHANGED <<config, store, threadIsfFinished, mtx, request,
                   handlerPc, mainPc, history>>

\* sleep_for(sleepTime); the iteration ends and `request` leaves its scope
DevSleep(d) ==
    /\ devPc[d] = "sleep"
    /\ devPc' = [devPc EXCEPT ![d] = "lock"]
    /\ request' = [request EXCEPT ![d] = NoRequest]
    /\ UNCHANGED <<config, store, threadIsfFinished, mtx, genPc,
                   handlerPc, mainPc, history>>

DevTermLock(d) ==
    /\ devPc[d] = "termlock"
    /\ ~mtx
    /\ mtx' = TRUE
    /\ devPc' = [devPc EXCEPT ![d] = "termprint"]
    /\ UNCHANGED <<config, store, threadIsfFinished, genPc, request,
                   handlerPc, mainPc, history>>

DevTermPrint(d) ==
    /\ devPc[d] = "termprint"
    /\ mtx' = FALSE
    /\ devPc' = [devPc EXCEPT ![d] = "done"]
    /\ UNCHANGED <<config, store, threadIsfFinished, genPc, request,
                   handlerPc, mainPc, history>>

\* every step of device d the scheduler is bound to take
requestProcessing(d) ==
    /\ d \in Devices
    /\ \/ DevLock(d) \/ DevPred(d) \/ DevBlock(d) \/ DevRelock(d)
       \/ DevCheck(d) \/ DevPop(d) \/ DevUnlock(d) \/ DevNotify(d)
       \/ DevSleep(d) \/ DevTermLock(d) \/ DevTermPrint(d)

\* ---------------------------------------------------------------------------
\* main: generatorThread.join(), then every deviceThread.join() in order
\* ---------------------------------------------------------------------------
MainJoin ==
    /\ ProcessAlive
    /\ IF mainPc = 0 THEN genPc = "done" ELSE devPc[mainPc - 1] = "done"
    /\ mainPc' = mainPc + 1
    /\ UNCHANGED <<config, store, threadIsfFinished, mtx, genPc, devPc,
                   request, handlerPc, history>>

MainFinished == mainPc = numOfGroups * numOfDevices + 1

\* ---------------------------------------------------------------------------
\* The system
\* ---------------------------------------------------------------------------
Next ==
    \/ HandlerSetFlag
    \/ HandlerNotify
    \/ GenLock \/ GenPred \/ GenBlock \/ GenSpurious \/ GenRelock
    \/ GenCheck \/ GenPush \/ GenUnlock \/ GenNotify \/ GenSleep
    \/ GenTermLock \/ GenTermPrint
    \/ \E d \in Devices : DevLock(d)
    \/ \E d \in Devices : DevPred(d)
    \/ \E d \in Devices : DevBlock(d)
    \/ \E d \in Devices : DevSpurious(d)
    \/ \E d \in Devices : DevRelock(d)
    \/ \E d \in Devices : DevCheck(d)
    \/ \E d \in Devices : DevPop(d)
    \/ \E d \in Devices : DevUnlock(d)
    \/ \E d \in Devices : DevNotify(d)
    \/ \E d \in Devices : DevSleep(d)
    \/ \E d \in Devices : DevTermLock(d)
    \/ \E d \in Devices : DevTermPrint(d)
    \/ MainJoin

Spec == Init /\ [][Next]_vars

\* The scheduler runs every thread that can take a step, the handler
\* finishes once entered, and main returns from a join that can return.
\* Nothing obliges a signal to arrive or a wait to wake spuriously.
Fairness ==
    /\ WF_vars(generateRequest)
    /\ \A d \in 0 .. (MaxWorkers - 1) : WF_vars(requestProcessing(d))
    /\ WF_vars(HandlerNotify)
    /\ WF_vars(MainJoin)

FairSpec == FairInit /\ [][Next]_vars /\ Fairness

\* ---------------------------------------------------------------------------
\* The system while no signal arrives: the handler never runs, no thread
\* leaves its loop and main stays in its first join.
\* ---------------------------------------------------------------------------
RunNext ==
    \/ GenLock \/ GenPred \/ GenBlock \/ GenSpurious \/ GenRelock
    \/ GenCheck \/ GenPush \/ GenUnlock \/ GenNotify \/ GenSleep
    \/ \E d \in Devices : DevLock(d)
    \/ \E d \in Devices : DevPred(d)
    \/ \E d \in Devices : DevBlock(d)
    \/ \E d \in Devices : DevSpurious(d)
    \/ \E d \in Devices : DevRelock(d)
    \/ \E d \in Devices : DevCheck(d)
    \/ \E d \in Devices : DevPop(d)
    \/ \E d \in Devices : DevUnlock(d)
    \/ \E d \in Devices : DevNotify(d)
    \/ \E d \in Devices : DevSleep(d)

\* The scheduler runs every thread that can take a step; a thread that
\* wants the mutex is only sure to get it if the mutex stays free, as
\* std::mutex promises no order among the contenders. Nothing obliges a
\* wait to return spuriously, and nothing keeps it from doing so again.
RunFairness ==
    /\ WF_vars(generateRequest)
    /\ \A d \in 0 .. (MaxWorkers - 1) : WF_vars(requestProcessing(d))

RunSpec == RunInit /\ [][RunNext]_vars /\ RunFairness

\* ---------------------------------------------------------------------------
\* The RequestQueue on its own: a single caller that applies push and pop
\* under their preconditions, in any order, to a queue of a larger capacity.
\* ---------------------------------------------------------------------------
StoreInit ==
    Configured(MaxStoreCapacity, MaxWorkers + MaxStoreCapacity) /\ Constructed

threads == <<threadIsfFinished, mtx, genPc, devPc, request, handlerPc, mainPc>>

StorePush ==
    /\ ~isFull
    /\ \E g \in Groups, t \in RequestTypes : push(Request(g, t))
    /\ pushesMinusPops' = pushesMinusPops + 1
    /\ lastOp' = "push"
    /\ UNCHANGED <<config, threads>>

StorePop ==
    /\ \E g \in Groups : ~isEmpty(g) /\ pop(g)
    /\ pushesMinusPops' = pushesMinusPops - 1
    /\ lastOp' = "pop"
    /\ UNCHANGED <<config, threads>>

StoreNext == StorePush \/ StorePop

StoreSpec == StoreInit /\ [][StoreNext]_vars

\* ---------------------------------------------------------------------------
\* Vocabulary of the properties
\* ---------------------------------------------------------------------------
\* positions at which a thread owns the mutex
Holding == {"pred", "block", "check", "push", "pop", "unlock", "termprint"}

Holders ==
    (IF genPc \in Holding THEN 1 ELSE 0)
    + Cardinality({d \in Devices : devPc[d] \in Holding})

RECURSIVE SumOfSizes(_)
SumOfSizes(n) ==
    IF n = 0 THEN 0 ELSE Len(allRequests[n - 1]) + SumOfSizes(n - 1)

Count(requests, r) == Cardinality({i \in DOMAIN requests : requests[i] = r})

HeapOrdered(requests) ==
    \A i \in 1 .. (Len(requests) - 1) :
        requests[i + 1].type <= requests[((i - 1) \div 2) + 1].type

AllTerminated == genPc = "done" /\ \A d \in Devices : devPc[d] = "done"

\* ---------------------------------------------------------------------------
\* C1: in every reachable state 0 <= currentSize <= capacity, and the
\* generator is never about to push while currentSize = capacity.
\* ---------------------------------------------------------------------------
C1_CapacityInvariant ==
    /\ 0 <= currentSize
    /\ currentSize <= capacity
    /\ genPc = "push" => currentSize < capacity

\* the store is full and the generator had to block on it
C1_Witness ==
    /\ capacity >= 1
    /\ currentSize = capacity
    /\ genPc = "waiting"
    /\ lastOp = "push"

\* ---------------------------------------------------------------------------
\* C2: currentSize equals the sum of the sizes of all per-group heaps
\* (push and pop are single steps, so no state is inside one of them).
\* ---------------------------------------------------------------------------
C2_SizeIsSumOfHeaps == currentSize = SumOfSizes(numOfGroups)

\* a device of one of two groups has just popped and a request remains
C2_Witness ==
    /\ numOfGroups = 2
    /\ lastOp = "pop"
    /\ \E d \in Devices : devPc[d] = "unlock"
    /\ \E g \in Groups : ~isEmpty(g)

\* ---------------------------------------------------------------------------
\* C3: once the shutdown flag is set, the generator and every device
\* terminate and main joins them all (under the scheduler's fairness).
\* ---------------------------------------------------------------------------
C3_ShutdownTerminates ==
    (threadIsfFinished /\ capacity >= 1) ~> MainFinished

\* ---------------------------------------------------------------------------
\* C4: no step taken while the shutdown flag is set changes the store.
\* ---------------------------------------------------------------------------
C4_NoMutationAfterShutdown ==
    [][threadIsfFinished => UNCHANGED store]_vars

\* ---------------------------------------------------------------------------
\* C5: the request a device of group g consumes has a type >= the type of
\* every request in g's heap at that moment, and the heap after the pop is
\* the heap before it minus exactly one occurrence of that request.
\* ---------------------------------------------------------------------------
Consumes(d) == devPc[d] = "pop" /\ devPc'[d] = "unlock"

C5_PopTakesMaximum ==
    [][\A d \in Devices :
         Consumes(d) =>
           LET before == allRequests[DeviceGroup(d)]
               after == allRequests'[DeviceGroup(d)]
               taken == request'[d]
           IN  /\ \A i \in DOMAIN before : before[i].type <= taken.type
               /\ Len(after) = Len(before) - 1
               /\ \A i \in DOMAIN before :
                    Count(after, before[i]) =
                      Count(before, before[i])
                      - (IF before[i] = taken THEN 1 ELSE 0)
               /\ Count(before, taken) >= 1]_vars

\* a device took the larger of two different requests and the smaller remains
C5_Witness ==
    \E d \in Devices :
        /\ devPc[d] = "unlock"
        /\ ~isEmpty(DeviceGroup(d))
        /\ top(DeviceGroup(d)).type < request[d].type

\* ---------------------------------------------------------------------------
\* C6: after any sequence of pushes and pops every element of a group's
\* array at index i >= 1 has type <= the type of its parent at (i-1)/2, and
\* a pop of a single-element heap leaves it empty.
\* ---------------------------------------------------------------------------
C6_HeapInvariant ==
    /\ [](\A g \in Groups : HeapOrdered(allRequests[g]))
    /\ [][\A g \in Groups :
            (Len(allRequests[g]) = 1 /\ allRequests'[g] # allRequests[g]
               /\ lastOp' = "pop")
              => allRequests'[g] = << >>]_vars

\* a pop has just rebuilt a heap that still has both children of the root
C6_Witness ==
    /\ lastOp = "pop"
    /\ \E g \in Groups :
         /\ Len(allRequests[g]) >= 3
         /\ allRequests[g][2].type < allRequests[g][3].type

\* ---------------------------------------------------------------------------
\* C7: at most one thread is between acquiring the mutex and releasing it,
\* and the mutex is locked exactly when one is.
\* ---------------------------------------------------------------------------
C7_MutualExclusion ==
    /\ Holders <= 1
    /\ mtx <=> (Holders = 1)

\* a device is popping while the generator and another device contend
C7_Witness ==
    \E d, e \in Devices :
        /\ d # e
        /\ devPc[d] = "pop"
        /\ devPc[e] \in {"lock", "relock"}
        /\ genPc \in {"lock", "relock"}

\* ---------------------------------------------------------------------------
\* C8: the generator is about to push only when the store is not full, and
\* a device of group g is about to top/pop only when g's heap is not empty.
\* ---------------------------------------------------------------------------
C8_Preconditions ==
    /\ genPc = "push" => ~isFull
    /\ \A d \in Devices : devPc[d] = "pop" => ~isEmpty(DeviceGroup(d))

\* a device was woken although another device of its group holds the only
\* request of the group
C8_Witness ==
    \E d, e \in Devices :
        /\ d # e
        /\ DeviceGroup(d) = DeviceGroup(e)
        /\ request[e] # NoRequest
        /\ isEmpty(DeviceGroup(d))
        /\ devPc[d] = "relock"
        /\ ~threadIsfFinished

\* ---------------------------------------------------------------------------
\* C9: whenever nobody holds the mutex, completed pushes minus completed
\* pops equals currentSize; and a step in which a device obtains a request
\* removes exactly one request from the store and gives it to that device
\* alone.
\* ---------------------------------------------------------------------------
C9_NoLossNoDuplication ==
    /\ [](~mtx => pushesMinusPops = currentSize)
    /\ [][\A d \in Devices :
            (request'[d] # request[d] /\ request'[d] # NoRequest) =>
              /\ currentSize' = currentSize - 1
              /\ Len(allRequests'[DeviceGroup(d)]) =
                   Len(allRequests[DeviceGroup(d)]) - 1
              /\ \A e \in Devices \ {d} : request'[e] = request[e]]_vars

\* the mutex is free after pushes and a pop, with a request still stored
C9_Witness ==
    /\ ~mtx
    /\ lastOp = "pop"
    /\ currentSize >= 1
    /\ \E d \in Devices : request[d] # NoRequest

\* ---------------------------------------------------------------------------
\* C10: if the handler has set the flag while the generator is blocked on a
\* full store and every device is blocked on an empty group, then all
\* threads terminate, main's joins complete, and no thread comes to a push
\* or a pop any more.
\* ---------------------------------------------------------------------------
AllBlockedAtSignal ==
    /\ handlerPc = "notify"
    /\ genPc = "waiting"
    /\ isFull
    /\ \A d \in Devices : devPc[d] = "waiting" /\ isEmpty(DeviceGroup(d))

NoMutationPending ==
    /\ genPc # "push"
    /\ \A d \in Devices : devPc[d] # "pop"

C10_BlockedThreadsShutDown ==
    /\ AllBlockedAtSignal ~> MainFinished
    /\ [](AllBlockedAtSignal => []NoMutationPending)

\* the handler has set the flag with the generator and two devices blocked
C10_Witness ==
    /\ AllBlockedAtSignal
    /\ numOfGroups * numOfDevices = 2

\* ---------------------------------------------------------------------------
\* C11: absent shutdown and under weak fairness, a generator that waits on
\* a store that was full and in which a device has since popped eventually
\* returns from the wait and comes to push again; with capacity 1 the size
\* stays within 0 and 1.
\* ---------------------------------------------------------------------------
GenWaitsWithRoom == genPc \in {"waiting", "relock"} /\ ~isFull

GenUnwoken == genPc = "waiting" /\ ~isFull

\* the generator has been woken with room in the store and goes for the
\* mutex
GenReacquiring == genPc = "relock" /\ ~isFull

RECURSIVE DrainTypes(_)
DrainTypes(requests) ==
    IF Len(requests) = 0 THEN << >>
    ELSE <<requests[1].type>> \o DrainTypes(popHeap(requests))

NonIncreasing(types) ==
    \A i \in 1 .. (Len(types) - 1) : types[i] >= types[i + 1]

RECURSIVE PushAll(_, _)
PushAll(requests, reqs) ==
    IF Len(reqs) = 0 THEN requests
    ELSE PushAll(pushHeap(requests, Head(reqs)), Tail(reqs))

C12_PopsInPriorityOrder ==
    /\ \A g \in Groups :
         /\ NonIncreasing(DrainTypes(allRequests[g]))
         /\ Len(DrainTypes(allRequests[g])) = Len(allRequests[g])
    /\ DrainTypes(PushAll(<< >>, <<Request(0, 1), Request(0, 3), Request(0, 2)>>))
         = <<3, 2, 1>>

\* types 1, 3, 2 were pushed into group 0 while group 1 holds a request
C12_Witness ==
    /\ numOfGroups = 2
    /\ lastOp = "push"
    /\ allRequests[0] = <<Request(0, 3), Request(0, 1), Request(0, 2)>>
    /\ ~isEmpty(1)

\* ---------------------------------------------------------------------------
\* C13: every read and every write of the store and of the shutdown flag
\* is made by a party that holds the mutex at that moment, the handler's
\* write of the flag included.
\* ---------------------------------------------------------------------------
\* the positions at which a thread reads the store or the flag
Reading == {"pred", "check"}

\* the mutex is locked and none of the threads is its owner
HandlerOwnsMutex == mtx /\ Holders = 0

C13_AllAccessUnderMutex ==
    [][/\ store' # store =>
            mtx /\ (genPc = "push" \/ \E d \in Devices : devPc[d] = "pop")
       /\ (genPc \in Reading /\ genPc' # genPc) => mtx
       /\ \A d \in Devices : (devPc[d] \in Reading /\ devPc'[d] # devPc[d]) => mtx
       /\ threadIsfFinished' # threadIsfFinished => HandlerOwnsMutex]_vars

\* ---------------------------------------------------------------------------
\* C14: no thread holds the mutex while it sleeps: whenever the generator
\* or a device is in its simulated delay, the mutex is free or owned by
\* another thread.
\* ---------------------------------------------------------------------------
C14_SleepersHoldNoMutex ==
    /\ (genPc = "sleep" /\ mtx) => \E d \in Devices : devPc[d] \in Holding
    /\ \A d \in Devices :
         (devPc[d] = "sleep" /\ mtx) =>
            \/ genPc \in Holding
            \/ \E e \in Devices \ {d} : devPc[e] \in Holding

\* a device sleeps over its request while the generator pushes
C14_Witness ==
    \E d \in Devices :
        /\ devPc[d] = "sleep"
        /\ request[d] # NoRequest
        /\ genPc = "push"
        /\ mtx

\* ---------------------------------------------------------------------------
\* C15: every request stored in group g's heap has groupId g and a type
\* in 1..3, and the request a device has consumed is of the device's group.
\* ---------------------------------------------------------------------------
C15_RequestsStayInTheirGroup ==
    /\ \A g \in Groups : \A i \in DOMAIN allRequests[g] :
         /\ allRequests[g][i].groupId = g
         /\ allRequests[g][i].type \in RequestTypes
    /\ \A d \in Devices :
         request[d] # NoRequest =>
            /\ request[d].groupId = DeviceGroup(d)
            /\ request[d].type \in RequestTypes

\* the device of group 1 has consumed a request while group 0 holds one
C15_Witness ==
    /\ numOfGroups = 2
    /\ ~isEmpty(0)
    /\ \E d \in Devices :
         /\ DeviceGroup(d) = 1
         /\ devPc[d] = "unlock"
         /\ request[d] # NoRequest

\* ---------------------------------------------------------------------------
\* C16: a generator or device that has left its loop implies the shutdown
\* flag is set, and a thread that has left its loop never returns into it.
\* ---------------------------------------------------------------------------
\* the positions after the loop
Terminated == {"termlock", "termprint", "done"}

C16_ShutdownIsTheOnlyExit ==
    /\ [](/\ genPc \in Terminated => threadIsfFinished
          /\ \A d \in Devices : devPc[d] \in Terminated => threadIsfFinished)
    /\ [][/\ genPc \in Terminated => genPc' \in Terminated
          /\ \A d \in Devices :
               devPc[d] \in Terminated => devPc'[d] \in Terminated]_vars

\* the generator has returned while a device still sleeps over its request
C16_Witness ==
    /\ genPc = "done"
    /\ \E d \in Devices : devPc[d] = "sleep" /\ request[d] # NoRequest

\* ---------------------------------------------------------------------------
\* C17: the heap is not first-in first-out among requests of equal type:
\* in every group, pushing a request of a higher type and then two requests
\* a and b of one lower type, and popping three times, removes b before a.
\* The two equal requests are told apart by a tag that the heap never reads.
\* ---------------------------------------------------------------------------
Tagged(g, t, n) == [groupId |-> g, type |-> t, tag |-> n]

RECURSIVE DrainTags(_)
DrainTags(requests) ==
    IF Len(requests) = 0 THEN << >>
    ELSE <<requests[1].tag>> \o DrainTags(popHeap(requests))

C17_EqualTypesLeaveOutOfOrder ==
    \A g \in Groups : \A t, u \in RequestTypes :
        u > t =>
          DrainTags(PushAll(<< >>,
              <<Tagged(g, u, 0), Tagged(g, t, 1), Tagged(g, t, 2)>>))
            = <<0, 2, 1>>

\* the store after those three pushes and the first pop: the two requests
\* of equal type remain
C17_Witness ==
    /\ lastOp = "pop"
    /\ pushesMinusPops = 2
    /\ \E g \in Groups :
         /\ Len(allRequests[g]) = 2
         /\ allRequests[g][1].type = allRequests[g][2].type

\* ---------------------------------------------------------------------------
\* C18: absent shutdown and with capacity >= 1, the system never
\* deadlocks: the generator and all devices are never all blocked in their
\* waits, some thread can always take a step, and a full store has a
\* non-empty group (which has a device).
\* ---------------------------------------------------------------------------
AllWaiting == genPc = "waiting" /\ \A d \in Devices : devPc[d] = "waiting"

C18_NoDeadlock ==
    (capacity >= 1 /\ ~threadIsfFinished) =>
        /\ ~AllWaiting
        /\ ENABLED (generateRequest \/ \E d \in Devices : requestProcessing(d))
        /\ isFull => \E g \in Groups : ~isEmpty(g)

\* the generator is blocked on a full store, the device of the empty group
\* is blocked too, and the device of the other group has been woken
C18_Witness ==
    /\ capacity >= 1
    /\ ~threadIsfFinished
    /\ numOfGroups = 2
    /\ genPc = "waiting"
    /\ isFull
    /\ \E d, e \in Devices :
         /\ devPc[d] = "waiting" /\ isEmpty(DeviceGroup(d))
         /\ devPc[e] = "relock" /\ ~isEmpty(DeviceGroup(e))

\* ---------------------------------------------------------------------------
\* C19: absent shutdown and under weak fairness, no wake-up is lost:
\* whenever a group's heap is non-empty, some device of the group
\* eventually pops from it.
\* ---------------------------------------------------------------------------
\* a device of group g has just popped
PoppedFrom(g) ==
    \E d \in Devices : DeviceGroup(d) = g /\ devPc[d] = "unlock"

AwaitsPop(g) == g \in Groups /\ ~isEmpty(g) /\ ~PoppedFrom(g)

Unwoken(d) ==
    d \in Devices /\ devPc[d] = "waiting" /\ ~isEmpty(DeviceGroup(d))

\* device d has been woken and goes for the mutex
Reacquiring(d) == d \in Devices /\ devPc[d] = "relock"

Changed(g) == allRequests'[g] # allRequests[g]

Pushes == genPc = "push" /\ genPc' = "unlock"

C20_OnlyTheGroupChanges ==
    [][/\ capacity' = capacity
       /\ numOfGroups' = numOfGroups
       /\ DOMAIN allRequests' = Groups
       /\ Cardinality({g \in Groups : Changed(g)}) <= 1
       /\ \A d \in Devices :
            Consumes(d) => \A g \in Groups \ {DeviceGroup(d)} : ~Changed(g)
       /\ Pushes =>
            \A g \in Groups :
               Changed(g) =>
                  \E t \in RequestTypes :
                     /\ Count(allRequests'[g], Request(g, t)) =
                          Count(allRequests[g], Request(g, t)) + 1
                     /\ Len(allRequests'[g]) = Len(allRequests[g]) + 1]_vars

\* the generator has just pushed and both groups hold requests
C20_Witness ==
    /\ numOfGroups = 2
    /\ genPc = "unlock"
    /\ lastOp = "push"
    /\ \A g \in Groups : ~isEmpty(g)
====
